---- MODULE Spec2Model ----
(***************************************************************************)
(* A model of the MPD client of src/mpd/client.go: one Client (Session)    *)
(* over a textproto.Conn, the server at the other end of the connection,   *)
(* and the callers that invoke the Client's methods.                        *)
(*                                                                         *)
(* A method call is a sequence of steps: Call (entry, argument checks),    *)
(* CmdNext and CmdWrite (textproto's Cmd: take a pipeline id, write the    *)
(* command line), StartResponse (wait for the response turn), ReadLine     *)
(* (one iteration of the reader loop), after which the method returns      *)
(* (deferred EndResponse included).  The server answers the commands it    *)
(* received in order, one response block per command; its lines are chosen *)
(* when the client reads them.                                             *)
(***************************************************************************)
EXTENDS Integers, Sequences, FiniteSets, TLC

\* ------------------------------------------------------------- bounds

\* method calls per run
MaxCalls == 2
\* data lines the server sends in a run, over all its response blocks
MaxData == 3
\* largest integer argument of a call
MaxInt == 1

Procs == {1, 2}
Ints == -1 .. MaxInt
URIs == {"a\"b"}

\* what the server may send
DataLines == {"file: x", "file: y", "Title: A: B", "file:x: b", "garbage", "Id: 7"}
Terminators == {"OK", "ACK no", "ACK a: b"}
Greetings == {"OK MPD 0.16.0", "OK MPX", "OK", ""}

\* ------------------------------------------------------------- strings

Min(S) == CHOOSE x \in S : \A y \in S : x <= y

\* strings.Index: the 0-based place of the first sub in s, or -1
Index(s, sub) ==
    LET hits == {i \in 1 .. (Len(s) - Len(sub) + 1) : SubSeq(s, i, i + Len(sub) - 1) = sub}
    IN  IF hits = {} THEN -1 ELSE Min(hits) - 1

HasPrefix(s, prefix) ==
    Len(s) >= Len(prefix) /\ SubSeq(s, 1, Len(prefix)) = prefix

\* Go's s[a:b] and s[a:] on strings
Slice(s, a, b) == SubSeq(s, a + 1, b)
SliceFrom(s, a) == SubSeq(s, a + 1, Len(s))

\* the %q verb: a double-quoted string with " and \ escaped
RECURSIVE QuoteBody(_)
QuoteBody(s) ==
    IF Len(s) = 0 THEN ""
    ELSE LET c == SubSeq(s, 1, 1)
             e == IF c = "\"" THEN "\\\"" ELSE IF c = "\\" THEN "\\\\" ELSE c
         IN  e \o QuoteBody(SliceFrom(s, 1))
Quote(s) == "\"" \o QuoteBody(s) \o "\""

\* the %d verb
Dec(n) == ToString(n)

\* strconv.Atoi: [n, ok]
RECURSIVE Digits(_, _)
Digits(s, acc) ==
    IF Len(s) = 0 THEN [n |-> acc, ok |-> TRUE]
    ELSE LET d == Index("0123456789", SubSeq(s, 1, 1))
         IN  IF d < 0 THEN [n |-> 0, ok |-> FALSE]
             ELSE Digits(SliceFrom(s, 1), acc * 10 + d)
Atoi(s) ==
    IF Len(s) = 0 THEN [n |-> 0, ok |-> FALSE]
    ELSE LET sign == SubSeq(s, 1, 1)
             body == IF sign \in {"+", "-"} THEN SliceFrom(s, 1) ELSE s
             r == Digits(body, 0)
         IN  IF Len(body) = 0 \/ ~r.ok THEN [n |-> 0, ok |-> FALSE]
             ELSE [n |-> IF sign = "-" THEN 0 - r.n ELSE r.n, ok |-> TRUE]

\* ------------------------------------------------------------- values

\* os.Error values
Nil == [type |-> "nil", msg |-> ""]
ProtocolError(msg) == [type |-> "ProtocolError", msg |-> msg]
NewError(msg) == [type |-> "os.Error", msg |-> msg]
TransportError == [type |-> "transport", msg |-> "i/o"]
NumError(tok) == [type |-> "NumError", msg |-> tok]
Panic(msg) == [type |-> "panic", msg |-> msg]

\* Attrs: a map from string to string
EmptyAttrs == << >>
\* a nil Attrs as an element of a slice (the zero value past len)
NilAttrs == [k \in {"<nil map>"} |-> ""]
Put(a, k, v) == [x \in (DOMAIN a) \cup {k} |-> IF x = k THEN v ELSE a[x]]

\* what a method returns: the error, and the value by its kind
\*   kind "none": no value (error-only methods)   "nil": a nil map or slice
\*   kind "attrs", "pls", "int"
Result(err, kind, a, l, n) == [err |-> err, kind |-> kind, attrs |-> a, pls |-> l, n |-> n]
ErrOnly(err) == Result(err, "none", EmptyAttrs, << >>, 0)
NilWith(err) == Result(err, "nil", EmptyAttrs, << >>, 0)
AttrsResult(a) == Result(Nil, "attrs", a, << >>, 0)
PlsResult(l) == Result(Nil, "pls", EmptyAttrs, l, 0)
IntResult(n, err) == Result(err, "int", EmptyAttrs, << >>, n)
NoResult == Result(Nil, "pending", EmptyAttrs, << >>, 0)

\* ------------------------------------------------------------- methods

(* A method body is the sequence of command cycles it runs, in order:      *)
(*   "okCmd"        okCmd(line): Cmd, StartResponse, readOKLine, EndResponse *)
(*   "Cmd"          a bare c.text.Cmd(line) whose id and err are overwritten *)
(*   "readAttrs"    Cmd, StartResponse, readAttrs, EndResponse               *)
(*   "readPlaylist" Cmd, StartResponse, readPlaylist, EndResponse            *)
(* or an error returned before anything is sent.                            *)
Cycle(k, line) == [k |-> k, line |-> line]
okCmd(line) == Cycle("okCmd", line)
Body(steps) == [pre |-> Nil, steps |-> steps]
Reject(err) == [pre |-> err, steps |-> << >>]

Ping == Body(<<okCmd("ping")>>)

CurrentSong == Body(<<Cycle("readAttrs", "currentsong")>>)

Status == Body(<<Cycle("readAttrs", "status")>>)

\* Client.Next
NextSong == Body(<<okCmd("next")>>)

Pause(pause) == IF pause THEN Body(<<okCmd("pause 1")>>) ELSE Body(<<okCmd("pause 0")>>)

Play(pos) ==
    IF pos < 0
    THEN Body(<<okCmd("play"), okCmd("play " \o Dec(pos))>>)
    ELSE Body(<<okCmd("play " \o Dec(pos))>>)

PlayId(n) ==
    IF n < 0 THEN Body(<<okCmd("playid")>>) ELSE Body(<<okCmd("playid " \o Dec(n))>>)

Previous == Body(<<okCmd("next")>>)

Seek(pos, time) == Body(<<okCmd("seek " \o Dec(pos) \o " " \o Dec(time))>>)

SeekId(n, time) == Body(<<okCmd("seekid " \o Dec(n) \o " " \o Dec(time))>>)

Stop == Body(<<okCmd("stop")>>)

\* PlaylistInfo without the check of its arguments
PlaylistInfoUnchecked(start, end) ==
    IF start >= 0 /\ end < 0
    THEN Body(<<Cycle("readPlaylist", "playlistinfo " \o Dec(start))>>)
    ELSE Body(<<Cycle("readPlaylist", "playlistinfo")>>)

\* the slice pls[start:end] is taken when the reader has returned: PlaylistInfoSlice
PlaylistInfo(start, end) ==
    IF start < 0 /\ end >= 0 THEN Reject(NewError("negative start index"))
    ELSE IF start >= 0 /\ end < 0
    THEN Body(<<Cycle("readPlaylist", "playlistinfo " \o Dec(start))>>)
    ELSE Body(<<Cycle("readPlaylist", "playlistinfo")>>)

Delete(start, end) ==
    IF start < 0 THEN Reject(NewError("negative start index"))
    ELSE IF end < 0 THEN Body(<<okCmd("delete " \o Dec(start))>>)
    ELSE Body(<<okCmd("delete " \o Dec(start) \o " " \o Dec(end))>>)

DeleteId(n) == Body(<<okCmd("deleteid " \o Dec(n))>>)

Add(uri) == Body(<<okCmd("add " \o Quote(uri))>>)

\* the Id lookup and Atoi are done when the reader has returned: AddIdResult
AddId(uri, pos) ==
    IF pos >= 0
    THEN Body(<<Cycle("Cmd", "addid " \o Quote(uri) \o " " \o Dec(pos)),
               Cycle("readAttrs", "addid " \o Quote(uri))>>)
    ELSE Body(<<Cycle("readAttrs", "addid " \o Quote(uri))>>)

Clear == Body(<<okCmd("clear")>>)

\* a call: the method and its arguments (x, y the integers, b the bool, uri the string)
Op(name, x, y, b, uri) == [name |-> name, x |-> x, y |-> y, b |-> b, uri |-> uri]
Ops ==
    {Op(n, 0, 0, FALSE, "") :
        n \in {"Ping", "CurrentSong", "Status", "Next", "Previous", "Stop", "Clear"}}
    \cup {Op("Pause", 0, 0, b, "") : b \in BOOLEAN}
    \cup {Op(n, x, 0, FALSE, "") : n \in {"Play", "PlayId", "DeleteId"}, x \in Ints}
    \cup {Op(n, x, y, FALSE, "") :
            n \in {"Seek", "SeekId", "PlaylistInfo", "Delete"}, x \in Ints, y \in Ints}
    \cup {Op("Add", 0, 0, FALSE, u) : u \in URIs}
    \cup {Op("AddId", x, 0, FALSE, u) : x \in Ints, u \in URIs}
NoOp == Op("", 0, 0, FALSE, "")

Method(o) ==
    CASE o.name = "Ping" -> Ping
      [] o.name = "CurrentSong" -> CurrentSong
      [] o.name = "Status" -> Status
      [] o.name = "Next" -> NextSong
      [] o.name = "Pause" -> Pause(o.b)
      [] o.name = "Play" -> Play(o.x)
      [] o.name = "PlayId" -> PlayId(o.x)
      [] o.name = "Previous" -> Previous
      [] o.name = "Seek" -> Seek(o.x, o.y)
      [] o.name = "SeekId" -> SeekId(o.x, o.y)
      [] o.name = "Stop" -> Stop
      [] o.name = "PlaylistInfo" -> PlaylistInfo(o.x, o.y)
      [] o.name = "Delete" -> Delete(o.x, o.y)
      [] o.name = "DeleteId" -> DeleteId(o.x)
      [] o.name = "Add" -> Add(o.uri)
      [] o.name = "AddId" -> AddId(o.uri, o.x)
      [] o.name = "Clear" -> Clear

\* ------------------------------------------------------------- readers

(* One iteration of a reader's loop on the line just read: whether the     *)
(* reader returns (done), the error it returns, and its local afterwards.  *)

readOKLine(line) ==
    IF line = "OK" THEN [done |-> TRUE, err |-> Nil]
    ELSE [done |-> TRUE, err |-> ProtocolError("unexpected response: " \o line)]

\* readAttrs keeping the first value of a repeated key
readAttrsKeepFirst(attrs, line) ==
    IF line = "OK" THEN [done |-> TRUE, err |-> Nil, attrs |-> attrs]
    ELSE LET z == Index(line, ": ")
         IN  IF z < 0
             THEN [done |-> TRUE, err |-> ProtocolError("can't parse line: " \o line),
                   attrs |-> attrs]
             ELSE [done |-> FALSE, err |-> Nil,
                   attrs |-> IF Slice(line, 0, z) \in DOMAIN attrs THEN attrs
                             ELSE Put(attrs, Slice(line, 0, z), SliceFrom(line, z + 2))]

readAttrs(attrs, line) ==
    IF line = "OK" THEN [done |-> TRUE, err |-> Nil, attrs |-> attrs]
    ELSE LET z == Index(line, ": ")
         IN  IF z < 0
             THEN [done |-> TRUE, err |-> ProtocolError("can't parse line: " \o line),
                   attrs |-> attrs]
             ELSE [done |-> FALSE, err |-> Nil,
                   attrs |-> Put(attrs, Slice(line, 0, z), SliceFrom(line, z + 2))]

\* readPlaylist skipping a line it cannot parse
readPlaylistSkipping(pls, line) ==
    IF line = "OK" THEN [done |-> TRUE, err |-> Nil, pls |-> pls]
    ELSE LET pls1 == IF HasPrefix(line, "file:") THEN Append(pls, EmptyAttrs) ELSE pls
             z == Index(line, ": ")
         IN  IF Len(pls1) = 0
             THEN [done |-> TRUE, err |-> ProtocolError("unexpected: " \o line), pls |-> pls1]
             ELSE IF z < 0
             THEN [done |-> FALSE, err |-> Nil, pls |-> pls1]
             ELSE [done |-> FALSE, err |-> Nil,
                   pls |-> [pls1 EXCEPT ![Len(pls1)] =
                               Put(@, Slice(line, 0, z), SliceFrom(line, z + 2))]]

readPlaylist(pls, line) ==
    IF line = "OK" THEN [done |-> TRUE, err |-> Nil, pls |-> pls]
    ELSE LET pls1 == IF HasPrefix(line, "file:") THEN Append(pls, EmptyAttrs) ELSE pls
             z == Index(line, ": ")
         IN  IF Len(pls1) = 0
             THEN [done |-> TRUE, err |-> ProtocolError("unexpected: " \o line), pls |-> pls1]
             ELSE IF z < 0
             THEN [done |-> TRUE, err |-> ProtocolError("can't parse line: " \o line),
                   pls |-> pls1]
             ELSE [done |-> FALSE, err |-> Nil,
                   pls |-> [pls1 EXCEPT ![Len(pls1)] =
                               Put(@, Slice(line, 0, z), SliceFrom(line, z + 2))]]

\* cap(pls) after n appends to []Attrs{}: append doubles the capacity
RECURSIVE Cap(_)
Cap(n) == IF n = 0 THEN 0 ELSE LET c == Cap(n - 1) IN IF c >= n THEN c ELSE IF c = 0 THEN 1 ELSE 2 * c

\* PlaylistInfo returning pls[start:end+1]
PlaylistInfoSliceInclusive(start, end, pls, err) ==
    IF err # Nil THEN NilWith(err)
    ELSE IF start < 0 \/ end < 0 THEN PlsResult(pls)
    ELSE IF start > end \/ end > Cap(Len(pls))
    THEN ErrOnly(Panic("slice bounds out of range"))
    ELSE PlsResult([i \in 1 .. (end - start + 1) |->
                      IF start + i <= Len(pls) THEN pls[start + i] ELSE NilAttrs])

\* PlaylistInfo's return after readPlaylist returned (pls, err)
PlaylistInfoSlice(start, end, pls, err) ==
    IF err # Nil THEN NilWith(err)
    ELSE IF start < 0 \/ end < 0 THEN PlsResult(pls)
    ELSE IF start > end \/ end > Cap(Len(pls))
    THEN ErrOnly(Panic("slice bounds out of range"))
    ELSE PlsResult([i \in 1 .. (end - start) |->
                      IF start + i <= Len(pls) THEN pls[start + i] ELSE NilAttrs])

\* AddId's return after readAttrs returned (attrs, err)
AddIdResult(attrs, err) ==
    IF err # Nil THEN IntResult(-1, err)
    ELSE IF "Id" \notin DOMAIN attrs
    THEN IntResult(-1, ProtocolError("addid did not return Id"))
    ELSE LET r == Atoi(attrs["Id"])
         IN  IF r.ok THEN IntResult(r.n, Nil) ELSE IntResult(0, NumError(attrs["Id"]))

\* what the method of call o returns once its last cycle returned err (and the
\* reader's attrs or pls)
Returned(o, err, attrs, pls) ==
    CASE o.name \in {"CurrentSong", "Status"} ->
            IF err # Nil THEN NilWith(err) ELSE AttrsResult(attrs)
      [] o.name = "AddId" -> AddIdResult(attrs, err)
      [] o.name = "PlaylistInfo" -> PlaylistInfoSlice(o.x, o.y, pls, err)
      [] OTHER -> ErrOnly(err)

\* ------------------------------------------------------------- state

VARIABLES
    dial,        \* Dial's outcome: [st, err, read, line], st "pending", "ok", "failed" or
                 \* "panic"; read: ReadLine returned a greeting, and line is that greeting
    text,        \* Client.text: "conn" or "nil"
    conn,        \* the transport: "none", "open", "broken" (failed) or "closed" (released)
    closes,      \* calls of c.text.Close() so far
    closeWrites, \* "close" lines that reached the server
    nextId,      \* textproto.Pipeline: the id Next() hands out
    reqId,       \* textproto.Pipeline: the request sequencer's turn
    respId,      \* textproto.Pipeline: the response sequencer's turn
    nWritten,    \* command lines that reached the server (the last command's ordinal)
    answered,    \* commands whose terminator line the client has read
    srvSent,     \* data lines the server has sent so far
    calls,       \* method calls made so far
    pc,          \* per caller: "idle", "cmd", "req", "start", "read", "done"
    op,          \* per caller: the call in progress or last returned
    prog,        \* per caller: the cycles of the method still to run
    id,          \* per caller: the id Cmd returned
    attrs,       \* per caller: readAttrs's local
    pls,         \* per caller: readPlaylist's local
    got,         \* per caller: the lines this call has read, [line, cmd, term]
    mine,        \* per caller: the ordinals of the commands this call has written
    wrote,       \* per caller: the command lines this call has written
    io,          \* per caller: PrintfLine and ReadLine calls of this call
    ret          \* per caller: what the call returned

vars == <<dial, text, conn, closes, closeWrites, nextId, reqId, respId, nWritten,
          answered, srvSent, calls, pc, op, prog, id, attrs, pls, got, mine, wrote, io, ret>>

pipeline == <<nextId, reqId, respId>>
server == <<nWritten, answered, srvSent>>
session == <<dial, text, conn, closes, closeWrites>>
locals == <<attrs, pls>>

Init ==
    /\ dial = [st |-> "pending", err |-> Nil, read |-> FALSE, line |-> ""]
    /\ text = "nil"
    /\ conn = "none"
    /\ closes = 0
    /\ closeWrites = 0
    /\ nextId = 0
    /\ reqId = 0
    /\ respId = 0
    /\ nWritten = 0
    /\ answered = 0
    /\ srvSent = 0
    /\ calls = 0
    /\ pc = [p \in Procs |-> "idle"]
    /\ op = [p \in Procs |-> NoOp]
    /\ prog = [p \in Procs |-> << >>]
    /\ id = [p \in Procs |-> 0]
    /\ attrs = [p \in Procs |-> EmptyAttrs]
    /\ pls = [p \in Procs |-> << >>]
    /\ got = [p \in Procs |-> << >>]
    /\ mine = [p \in Procs |-> {}]
    /\ wrote = [p \in Procs |-> << >>]
    /\ io = [p \in Procs |-> 0]
    /\ ret = [p \in Procs |-> NoResult]

\* ------------------------------------------------------------- actions

\* Dial: connect, read the greeting, check it
Dial ==
    /\ dial.st = "pending"
    /\ \/ /\ dial' = [dial EXCEPT !.st = "failed", !.err = TransportError]   \* textproto.Dial fails
          /\ UNCHANGED <<text, conn>>
       \/ /\ dial' = [dial EXCEPT !.st = "failed", !.err = TransportError]   \* ReadLine fails
          /\ conn' = "broken"
          /\ UNCHANGED text
       \/ \E line \in Greetings :
            IF Len(line) < 6
            THEN /\ dial' = [st |-> "panic", err |-> Panic("slice bounds out of range"),
                           read |-> TRUE, line |-> line]
                 /\ conn' = "open"
                 /\ UNCHANGED text
            ELSE IF Slice(line, 0, 6) # "OK MPD"
            THEN /\ dial' = [st |-> "failed", err |-> ProtocolError("no greeting"),
                           read |-> TRUE, line |-> line]
                 /\ conn' = "open"
                 /\ UNCHANGED text
            ELSE /\ dial' = [st |-> "ok", err |-> Nil, read |-> TRUE, line |-> line]
                 /\ conn' = "open"
                 /\ text' = "conn"
    /\ UNCHANGED <<closes, closeWrites, pipeline, server, calls, pc, op, prog, id, locals,
                   got, mine, wrote, io, ret>>

\* The transport may fail at any time (the peer disconnects, the network breaks); the
\* client learns of it at its next PrintfLine or ReadLine, which then finds the
\* transport "broken" or breaks it: the states conn may be in after that call began.
Transport == IF conn = "open" THEN {"open", "broken"} ELSE {conn}

CanCall(p) ==
    /\ dial.st = "ok"
    /\ pc[p] = "idle"
    /\ calls < MaxCalls

\* the bookkeeping of a call that has not begun
Fresh(p) ==
    /\ op' = [op EXCEPT ![p] = NoOp]
    /\ id' = [id EXCEPT ![p] = 0]
    /\ got' = [got EXCEPT ![p] = << >>]
    /\ mine' = [mine EXCEPT ![p] = {}]
    /\ wrote' = [wrote EXCEPT ![p] = << >>]
    /\ io' = [io EXCEPT ![p] = 0]
    /\ attrs' = [attrs EXCEPT ![p] = EmptyAttrs]
    /\ pls' = [pls EXCEPT ![p] = << >>]
    /\ ret' = [ret EXCEPT ![p] = NoResult]

\* the caller has taken the result of its call (or recovered from its panic) and may
\* call again
Return(p) ==
    /\ pc[p] = "done"
    /\ pc' = [pc EXCEPT ![p] = "idle"]
    /\ Fresh(p)
    /\ UNCHANGED <<session, pipeline, server, calls, prog>>

\* the entry of a call
Enter(p, o) ==
    /\ op' = [op EXCEPT ![p] = o]
    /\ calls' = calls + 1
    /\ UNCHANGED <<got, mine, wrote, locals>>

\* Close without the test of c.text
CloseUnguarded(p) ==
    /\ CanCall(p)
    /\ Enter(p, Op("Close", 0, 0, FALSE, ""))
    /\ pc' = [pc EXCEPT ![p] = "done"]
    /\ prog' = [prog EXCEPT ![p] = << >>]
    /\ io' = [io EXCEPT ![p] = 1]
    /\ \E now \in Transport :
         /\ closeWrites' = IF now = "open" THEN closeWrites + 1 ELSE closeWrites
         /\ \E err \in (IF now = "open" THEN {Nil} ELSE {Nil, TransportError}) :
              ret' = [ret EXCEPT ![p] = ErrOnly(err)]
    /\ closes' = closes + 1
    /\ conn' = "closed"
    /\ text' = "nil"
    /\ UNCHANGED <<dial, pipeline, server, id>>

\* Close
Close(p) ==
    /\ CanCall(p)
    /\ Enter(p, Op("Close", 0, 0, FALSE, ""))
    /\ pc' = [pc EXCEPT ![p] = "done"]
    /\ prog' = [prog EXCEPT ![p] = << >>]
    /\ IF text # "nil"
       THEN /\ io' = [io EXCEPT ![p] = 1]
            /\ \E now \in Transport :
                 /\ closeWrites' = IF now = "open" THEN closeWrites + 1 ELSE closeWrites
                 /\ \E err \in (IF now = "open" THEN {Nil} ELSE {Nil, TransportError}) :
                      ret' = [ret EXCEPT ![p] = ErrOnly(err)]
            /\ closes' = closes + 1
            /\ conn' = "closed"
            /\ text' = "nil"
       ELSE /\ io' = [io EXCEPT ![p] = 0]
            /\ ret' = [ret EXCEPT ![p] = ErrOnly(Nil)]
            /\ UNCHANGED <<closeWrites, closes, conn, text>>
    /\ UNCHANGED <<dial, pipeline, server, id>>

\* the entry of every other method, for a call among ops: the argument checks, then
\* its first cycle
CallOf(p, ops) ==
    /\ CanCall(p)
    /\ \E o \in ops :
         /\ Enter(p, o)
         /\ io' = [io EXCEPT ![p] = 0]
         /\ IF Method(o).pre # Nil
            THEN /\ pc' = [pc EXCEPT ![p] = "done"]
                 /\ prog' = [prog EXCEPT ![p] = << >>]
                 /\ ret' = [ret EXCEPT ![p] = Returned(o, Method(o).pre, EmptyAttrs, << >>)]
            ELSE /\ pc' = [pc EXCEPT ![p] = "cmd"]
                 /\ prog' = [prog EXCEPT ![p] = Method(o).steps]
                 /\ ret' = [ret EXCEPT ![p] = NoResult]
    /\ UNCHANGED <<session, pipeline, server, id>>

Call(p) == CallOf(p, Ops)

\* the calls that callers sharing a Client make: one method of each shape (okCmd, flat
\* decode, record decode, Play's and AddId's two commands)
SharedOps ==
    {o \in Ops : \/ o.name \in {"Ping", "Status"}
                 \/ o.name \in {"Play", "AddId"} /\ o.x \in {-1, 0}
                 \/ o.name = "PlaylistInfo" /\ o.x = -1 /\ o.y = -1}
CallShared(p) == CallOf(p, SharedOps)

\* a use of c.text when it is nil: the call ends in a run-time panic
Panics(p) ==
    /\ pc' = [pc EXCEPT ![p] = "done"]
    /\ prog' = [prog EXCEPT ![p] = << >>]
    /\ ret' = [ret EXCEPT ![p] = ErrOnly(Panic("nil pointer dereference"))]

\* the cycle in progress returns err: the method goes on to its next cycle, or returns
CycleReturns(p, err, a, l) ==
    IF Len(prog[p]) > 1
    THEN /\ pc' = [pc EXCEPT ![p] = "cmd"]
         /\ prog' = [prog EXCEPT ![p] = Tail(prog[p])]
         /\ UNCHANGED ret
    ELSE /\ pc' = [pc EXCEPT ![p] = "done"]
         /\ prog' = [prog EXCEPT ![p] = << >>]
         /\ ret' = [ret EXCEPT ![p] = Returned(op[p], err, a, l)]

\* textproto.Conn.Cmd, first half: id := c.Next()
CmdNext(p) ==
    /\ pc[p] = "cmd"
    /\ IF text = "nil"
       THEN /\ Panics(p)
            /\ UNCHANGED <<nextId, id>>
       ELSE /\ id' = [id EXCEPT ![p] = nextId]
            /\ nextId' = nextId + 1
            /\ pc' = [pc EXCEPT ![p] = "req"]
            /\ UNCHANGED <<prog, ret>>
    /\ UNCHANGED <<session, reqId, respId, server, calls, op, locals, got, mine, wrote, io>>

\* textproto.Conn.Cmd, second half: StartRequest(id), PrintfLine, EndRequest(id)
CmdWrite(p) ==
    /\ pc[p] = "req"
    /\ reqId = id[p]
    /\ reqId' = reqId + 1
    /\ io' = [io EXCEPT ![p] = @ + 1]
    /\ \E now \in Transport :
         /\ conn' = now
         /\ IF now = "open"
            THEN /\ nWritten' = nWritten + 1
                 /\ mine' = [mine EXCEPT ![p] = @ \cup {nWritten + 1}]
                 /\ wrote' = [wrote EXCEPT ![p] = Append(@, Head(prog[p]).line)]
            ELSE UNCHANGED <<nWritten, mine, wrote>>
         /\ IF Head(prog[p]).k = "Cmd"
            THEN /\ pc' = [pc EXCEPT ![p] = "cmd"]
                 /\ prog' = [prog EXCEPT ![p] = Tail(prog[p])]
                 /\ UNCHANGED ret
            ELSE IF now # "open"
            THEN CycleReturns(p, TransportError, EmptyAttrs, << >>)
            ELSE /\ pc' = [pc EXCEPT ![p] = "start"]
                 /\ UNCHANGED <<prog, ret>>
    /\ UNCHANGED <<dial, text, closes, closeWrites, nextId, respId, answered, srvSent,
                   calls, op, id, locals, got>>

\* StartResponse that does not wait for its turn
StartResponseUnordered(p) ==
    /\ pc[p] = "start"
    /\ IF text = "nil"
       THEN /\ Panics(p)
            /\ UNCHANGED locals
       ELSE /\ pc' = [pc EXCEPT ![p] = "read"]
            /\ attrs' = [attrs EXCEPT ![p] = EmptyAttrs]
            /\ pls' = [pls EXCEPT ![p] = << >>]
            /\ UNCHANGED <<prog, ret>>
    /\ UNCHANGED <<session, pipeline, server, calls, op, id, got, mine, wrote, io>>


\* c.text.StartResponse(id): wait for the response turn; the reader's local is made
StartResponse(p) ==
    /\ pc[p] = "start"
    /\ IF text = "nil"
       THEN /\ Panics(p)
            /\ UNCHANGED locals
       ELSE /\ respId = id[p]
            /\ pc' = [pc EXCEPT ![p] = "read"]
            /\ attrs' = [attrs EXCEPT ![p] = EmptyAttrs]
            /\ pls' = [pls EXCEPT ![p] = << >>]
            /\ UNCHANGED <<prog, ret>>
    /\ UNCHANGED <<session, pipeline, server, calls, op, id, got, mine, wrote, io>>

\* the lines the server may send next: it answers the commands in order, one block
\* of data lines and one terminator for each
ServerLines ==
    IF answered < nWritten
    THEN (IF srvSent < MaxData THEN DataLines ELSE {}) \cup Terminators
    ELSE {}

\* one iteration of the reader of the cycle in progress, on line
Reader(p, line) ==
    LET k == Head(prog[p]).k
        ra == readAttrs(attrs[p], line)
        rp == readPlaylist(pls[p], line)
        r == CASE k = "okCmd" -> readOKLine(line) [] k = "readAttrs" -> ra [] OTHER -> rp
    IN  /\ attrs' = [attrs EXCEPT ![p] = IF k = "readAttrs" THEN ra.attrs ELSE @]
        /\ pls' = [pls EXCEPT ![p] = IF k = "readPlaylist" THEN rp.pls ELSE @]
        /\ IF r.done
           THEN /\ respId' = respId + 1     \* the deferred EndResponse(id)
                /\ CycleReturns(p, r.err, attrs'[p], pls'[p])
           ELSE UNCHANGED <<respId, pc, prog, ret>>

\* c.text.ReadLine() in readOKLine, readAttrs or readPlaylist, and what the reader
\* does with the line, which is one of lines
ReadLineFrom(p, lines) ==
    /\ pc[p] = "read"
    /\ IF text = "nil"
       THEN /\ Panics(p)
            /\ respId' = respId + 1
            /\ UNCHANGED <<conn, answered, srvSent, got, io, locals>>
       ELSE /\ io' = [io EXCEPT ![p] = @ + 1]
            /\ \/ /\ conn' \in Transport \ {"open"}      \* ReadLine returns an error
                  /\ respId' = respId + 1
                  /\ CycleReturns(p, TransportError, EmptyAttrs, << >>)
                  /\ UNCHANGED <<answered, srvSent, got, locals>>
               \/ /\ conn = "open"                        \* ReadLine returns a line
                  /\ UNCHANGED conn
                  /\ \E line \in lines :
                       /\ got' = [got EXCEPT ![p] = Append(@,
                                    [line |-> line, cmd |-> answered + 1,
                                     term |-> line \in Terminators])]
                       /\ answered' = IF line \in Terminators THEN answered + 1 ELSE answered
                       /\ srvSent' = IF line \in Terminators THEN srvSent ELSE srvSent + 1
                       /\ Reader(p, line)
    /\ UNCHANGED <<dial, text, closes, closeWrites, nextId, reqId, nWritten, calls, op, id,
                   mine, wrote>>

\* ReadLine with a server that may send any line
ReadLine(p) == ReadLineFrom(p, ServerLines)

\* the data lines an MPD server sends, those that are `key: value` pairs, and those
\* whose key is file
BlockData == {"file: x", "Id: 7", "Title: A: B"}
Pairs == {l \in BlockData : Index(l, ": ") >= 0}
MarkerLines == {l \in Pairs : Slice(l, 0, Index(l, ": ")) = "file"}

\* the command line with ordinal c, while its caller has not taken its result
Owners(c) == {p \in Procs : c \in mine[p]}
CommandAt(c) ==
    LET p == CHOOSE p \in Owners(c) : TRUE
    IN  wrote[p][Cardinality({d \in mine[p] : d <= c})]

\* the lines an MPD server may send next: it answers the commands in order, each by
\* the block of its kind ended by OK: records that begin with a file line for
\* playlistinfo, pairs for status, currentsong and addid, nothing for the others
ServerBlockLines ==
    IF answered >= nWritten THEN {}
    ELSE IF Owners(answered + 1) = {} THEN {"OK"}
    ELSE LET cmd == CommandAt(answered + 1)
             begun == \E q \in Procs : \E i \in DOMAIN got[q] : got[q][i].cmd = answered + 1
             data == IF HasPrefix(cmd, "playlistinfo")
                     THEN (IF begun THEN Pairs ELSE MarkerLines)
                     ELSE IF cmd \in {"status", "currentsong"} \/ HasPrefix(cmd, "addid")
                     THEN Pairs
                     ELSE {}
         IN  (IF srvSent < MaxData THEN data ELSE {}) \cup {"OK"}

\* ReadLine with a server that sends the block of each command
ReadBlockLine(p) == ReadLineFrom(p, ServerBlockLines)

Callers == {1}

Next ==
    \/ Dial
    \/ \E p \in Callers :
         \/ Call(p)
         \/ Close(p)
         \/ Return(p)
         \/ CmdNext(p)
         \/ CmdWrite(p)
         \/ StartResponse(p)
         \/ ReadLine(p)

Spec == Init /\ [][Next]_vars

\* several callers use one Client at once (none calls Close) with an MPD server
NextShared ==
    \/ Dial
    \/ \E p \in Procs :
         \/ CallShared(p)
         \/ Return(p)
         \/ CmdNext(p)
         \/ CmdWrite(p)
         \/ StartResponse(p)
         \/ ReadBlockLine(p)

SpecShared == Init /\ [][NextShared]_vars

\* ------------------------------------------------------------- claims

Last(q) == q[Len(q)]
Lines(q) == [i \in DOMAIN q |-> q[i].line]
IsAck(line) == HasPrefix(line, "ACK")
Returns(p) == pc[p] = "done" /\ ret[p].err.type # "panic"
Decodes(p) == op[p].name \in {"CurrentSong", "Status", "AddId", "PlaylistInfo"}

\* the place (from 1) of the first ": " of line, 0 when it has none
Delim(line) ==
    IF \E i \in 1 .. Len(line) - 1 : SubSeq(line, i, i + 1) = ": "
    THEN CHOOSE i \in 1 .. Len(line) - 1 :
           /\ SubSeq(line, i, i + 1) = ": "
           /\ \A j \in 1 .. i - 1 : SubSeq(line, j, j + 1) # ": "
    ELSE 0
KeyOf(line) == SubSeq(line, 1, Delim(line) - 1)
ValueOf(line) == SubSeq(line, Delim(line) + 2, Len(line))

\* the lines a call has read are data lines that all hold ": ", then OK
WellFormedBlock(q) ==
    /\ Len(q) >= 1
    /\ Last(q) = "OK"
    /\ \A i \in 1 .. Len(q) - 1 : q[i] # "OK" /\ Delim(q[i]) > 0

\* the Attribute Set of the data lines q[from .. to]: each key with the value of the
\* last line that has it
AttrsOf(q, from, to) ==
    [k \in {KeyOf(q[i]) : i \in from .. to} |->
        ValueOf(q[CHOOSE i \in from .. to :
                    /\ KeyOf(q[i]) = k
                    /\ \A j \in (i + 1) .. to : KeyOf(q[j]) # k])]

\* C1: under single-caller use at most one command is outstanding: no command line
\* has been written while an earlier command's terminator line is still unread.
C1_AtMostOneOutstanding == nWritten - answered <= 1

\* C2: a call that returns (success, ACK failure or malformed-response failure) has
\* read exactly the lines of its own commands' response blocks: every line it read
\* answers a command it wrote, and it read the terminator line of each of them.
C2_ConsumesOwnBlock ==
    \A p \in Procs :
        (Returns(p) /\ mine[p] # {} /\ ret[p].err.type \in {"nil", "ProtocolError"})
        => /\ \A i \in DOMAIN got[p] : got[p][i].cmd \in mine[p]
           /\ \A c \in mine[p] : \E i \in DOMAIN got[p] : got[p][i].cmd = c /\ got[p][i].term

\* C3: after Close, a call of any other method (whose arguments are valid) ends by
\* returning a closed-session error value, with no write and no read on the transport.
C3_ClosedSessionError ==
    \A p \in Procs :
        (pc[p] = "done" /\ op[p].name # "Close" /\ closes > 0 /\ Method(op[p]).pre = Nil)
        => ret[p].err.type = "closed" /\ io[p] = 0

\* C4: a call that detects a transport failure leaves the Session Closed, and no
\* call goes on to write or read once the failure is known.
C4_TransportFailureCloses ==
    /\ \A p \in Procs :
         (pc[p] = "done" /\ op[p].name # "Close" /\ ret[p].err = TransportError)
         => text = "nil"
    /\ \A p \in Procs :
         (dial.st = "ok" /\ conn = "broken") => pc[p] \notin {"req", "start", "read"}

\* C5: in flat and record-sequence decode, when the line just read is the terminator
\* `ACK <message>` of the response, decode has stopped there and the call returns a
\* protocol failure whose message is exactly <message>.
C5_AckMessage ==
    \A p \in Procs :
        (Decodes(p) /\ got[p] # << >> /\ Last(got[p]).term /\ IsAck(Last(got[p]).line))
        => /\ pc[p] = "done"
           /\ ret[p].err = ProtocolError(SliceFrom(Last(got[p]).line, 4))

\* C6: a call whose command was answered by an ACK terminator line stops reading at
\* that line (what it reads next, if anything, answers a later command of its own),
\* returns a failure, and leaves the Session Connected.
C6_AckLeavesSessionUsable ==
    \A p \in Procs : \A i \in DOMAIN got[p] :
        (got[p][i].term /\ IsAck(got[p][i].line) /\ got[p][i].cmd \in mine[p])
        => /\ text = "conn"
           /\ IF i = Len(got[p])
              THEN pc[p] # "read" /\ (pc[p] = "done" => ret[p].err # Nil)
              ELSE got[p][i + 1].cmd \in mine[p] /\ got[p][i + 1].cmd > got[p][i].cmd

\* C7: Close is idempotent: the first Close makes one attempt to write "close",
\* releases the transport once and leaves c.text nil; a later Close returns no error,
\* makes no write and leaves the Session and the transport as they were.
C7_CloseIdempotent ==
    [][\A p \in Procs :
         (pc[p] = "idle" /\ pc'[p] = "done" /\ op'[p].name = "Close")
         => IF text = "nil"
            THEN /\ ret'[p] = ErrOnly(Nil)
                 /\ io'[p] = 0
                 /\ UNCHANGED <<session, pipeline, server>>
            ELSE /\ io'[p] = 1
                 /\ closes = 0 /\ closes' = 1
                 /\ closeWrites = 0 /\ closeWrites' <= 1
                 /\ text' = "nil" /\ conn' = "closed"]_vars

C7_Witness ==
    \E p \in Procs :
        pc[p] = "done" /\ op[p].name = "Close" /\ io[p] = 0 /\ closes = 1 /\ calls = 2

\* the records of a well-formed block q: one for each line whose key is file
Markers(q) == {i \in 1 .. Len(q) - 1 : KeyOf(q[i]) = "file"}
RecordsOf(q) ==
    LET m == Markers(q)
        nth(j) == CHOOSE i \in m : Cardinality({h \in m : h < i}) = j - 1
        end(i) == IF \E h \in m : h > i THEN Min({h \in m : h > i}) - 1 ELSE Len(q) - 1
    IN  [j \in 1 .. Cardinality(m) |-> AttrsOf(q, nth(j), end(nth(j)))]

\* C8: record-sequence decode of a block of well-formed `key: value` lines ending in
\* OK returns one Attribute Set for each line whose key is exactly file, in order,
\* holding the pairs of that line and of the lines up to the next such line.
C8_RecordsByMarkerKey ==
    \A p \in Procs :
        (Returns(p) /\ op[p].name = "PlaylistInfo" /\ (op[p].x < 0 \/ op[p].y < 0)
            /\ WellFormedBlock(Lines(got[p])))
        => ret[p].err = Nil /\ ret[p].kind = "pls"
           /\ ret[p].pls = RecordsOf(Lines(got[p]))

\* C9: flat decode (Status, CurrentSong) of data lines that all hold ": ", then OK,
\* returns no error and the Attribute Set that maps the text before the first ": " of
\* each line to the text after it, the last line winning for a repeated key; it is
\* determined by the lines of this block alone.
C9_FlatDecode ==
    \A p \in Procs :
        (Returns(p) /\ op[p].name \in {"CurrentSong", "Status"}
            /\ WellFormedBlock(Lines(got[p])))
        => ret[p] = AttrsResult(AttrsOf(Lines(got[p]), 1, Len(got[p]) - 1))

C9_Witness ==
    \E p \in Procs :
        /\ pc[p] = "done" /\ op[p].name = "Status" /\ calls = 2
        /\ Lines(got[p]) = <<"file: x", "Title: A: B", "file: y", "OK">>
        /\ ret[p].attrs = [k \in {"file", "Title"} |-> IF k = "file" THEN "y" ELSE "A: B"]

\* C10: in flat and record-sequence decode, a data line without ": " ends the call
\* there with a malformed-response error and no Attribute Set or Record Sequence.
C10_MalformedLine ==
    \A p \in Procs : \A i \in DOMAIN got[p] :
        (Decodes(p) /\ ~got[p][i].term /\ Delim(got[p][i].line) = 0)
        => /\ i = Len(got[p])
           /\ pc[p] = "done"
           /\ ret[p].err.type = "ProtocolError"
           /\ ret[p].kind \notin {"attrs", "pls"}
           /\ ret[p].attrs = EmptyAttrs /\ ret[p].pls = << >>

C10_Witness ==
    \E p \in Procs :
        /\ pc[p] = "done" /\ op[p].name = "PlaylistInfo"
        /\ Lines(got[p]) = <<"file: x", "Id: 7", "garbage">>
        /\ ret[p] = NilWith(ProtocolError("can't parse line: garbage"))

\* C11: in record-sequence decode, a `key: value` data line whose key is not file,
\* read before any line whose key is file, ends the call there with a
\* malformed-response error and no records: no record is made for it and it is not
\* passed over.
C11_NoRecordBeforeMarker ==
    \A p \in Procs : \A i \in DOMAIN got[p] :
        (/\ op[p].name = "PlaylistInfo"
         /\ ~got[p][i].term /\ Delim(got[p][i].line) > 0
         /\ \A j \in 1 .. i : KeyOf(got[p][j].line) # "file")
        => /\ i = Len(got[p])
           /\ pc[p] = "done"
           /\ ret[p].err.type = "ProtocolError"
           /\ ret[p].kind \notin {"attrs", "pls"}
           /\ ret[p].pls = << >>

\* a call whose arguments the method rejects before it touches the transport
Invalid(o) ==
    \/ o.name = "PlaylistInfo" /\ o.x < 0 /\ o.y >= 0
    \/ o.name = "Delete" /\ o.x < 0

\* C12: a call that validation rejects (PlaylistInfo with a negative start and a
\* non-negative end, Delete with a negative start) returns the validation error at
\* once: it writes nothing, reads nothing, and leaves the Session, the pipeline and
\* the server's unread lines as they were.
C12_ValidationTouchesNothing ==
    [][\A p \in Procs :
         (pc[p] = "idle" /\ pc'[p] # "idle" /\ Invalid(op'[p]))
         => /\ pc'[p] = "done"
            /\ ret'[p].err = NewError("negative start index")
            /\ ret'[p].kind \notin {"attrs", "pls"}
            /\ io'[p] = 0 /\ wrote'[p] = << >> /\ got'[p] = << >>
            /\ UNCHANGED <<session, pipeline, server>>]_vars

C12_Witness ==
    \E p \in Procs :
        /\ pc[p] = "done" /\ op[p].name = "PlaylistInfo" /\ Invalid(op[p])
        /\ ret[p].err = NewError("negative start index")
        /\ calls = 2 /\ text = "conn" /\ nWritten = 1 /\ answered = 0

\* no line of q begins with "file:" unless its key is file
PlainKeys(q) == \A i \in 1 .. Len(q) - 1 : HasPrefix(q[i], "file:") => KeyOf(q[i]) = "file"

C14_DialHandshake ==
    (dial.st # "pending" /\ calls = 0)
    => /\ nWritten = 0 /\ closeWrites = 0
       /\ IF dial.read /\ HasPrefix(dial.line, "OK MPD")
          THEN dial.st = "ok" /\ dial.err = Nil /\ text = "conn"
          ELSE /\ dial.st = "failed" /\ text = "nil"
               /\ dial.err = IF dial.read THEN ProtocolError("no greeting")
                             ELSE TransportError

\* C15: a call of a method other than Close that validation does not reject writes
\* one command line, never a second, and the lines it reads all belong to one
\* response block; when it returns without a transport failure it has written
\* exactly one command line.
C15_OneCommandPerCall ==
    \A p \in Procs :
        /\ Len(wrote[p]) <= 1
        /\ Cardinality({got[p][i].cmd : i \in DOMAIN got[p]}) <= 1
        /\ (Returns(p) /\ op[p].name # "Close" /\ Method(op[p]).pre = Nil
               /\ ret[p].err # TransportError)
           => Len(wrote[p]) = 1

\* C17: Previous writes the command line `previous` and Next the command line
\* `next`: the two never write the same line.
C17_PreviousAndNextDiffer ==
    \A p \in Procs :
        wrote[p] # << >>
        => /\ op[p].name = "Previous" => wrote[p][1] = "previous"
           /\ op[p].name = "Next" => wrote[p][1] = "next"

\* C18: no call is left waiting for ever: a caller that waits at StartResponse holds
\* the token whose turn it is (with one caller nobody else can end an earlier
\* response), and a caller that waits for a line still has the terminator line of one
\* of its own commands to read (the server sends nothing after the last terminator).
C18_NoCallWaitsForEver ==
    \A p \in Callers :
        /\ pc[p] = "start" => respId = id[p]
        /\ pc[p] = "read" => \E c \in mine[p] : c > answered

\* C20: PlaylistInfo with start >= 0 and end >= 0 returns normally whatever the
\* arguments and the length of the listing: it never ends in a slice bounds fault.
C20_RangeNeverFaults ==
    \A p \in Procs :
        (pc[p] = "done" /\ op[p].name = "PlaylistInfo" /\ op[p].x >= 0 /\ op[p].y >= 0)
        => ret[p].err # Panic("slice bounds out of range")

\* the caller is in a call and has written a command whose terminator line is unread
Outstanding(p) == pc[p] \notin {"idle", "done"} /\ \E c \in mine[p] : c > answered

\* C16: callers that share a Client exclude each other over "write the command, read
\* its whole response": no caller's command is written while another caller's
\* command, written before, still has its response to be read.
C16_MutualExclusion ==
    \A p, q \in Procs : (Outstanding(p) /\ Outstanding(q)) => p = q

Max(S) == CHOOSE x \in S : \A y \in S : y <= x

\* C19: with callers sharing a Client and a server that answers each command, in
\* order, by a well-formed block ended by OK, the ids are in the order of the writes,
\* one caller reads at a time, every line a caller reads answers a command it wrote
\* itself, and a call that returns without a transport failure has read the
\* terminator line of each of its commands.
C19_OwnBlock ==
    /\ \A p, q \in Procs :
         (pc[p] \in {"start", "read"} /\ pc[q] \in {"start", "read"} /\ id[p] < id[q])
         => Max(mine[p]) < Max(mine[q])
    /\ \A p, q \in Procs : (pc[p] = "read" /\ pc[q] = "read") => p = q
    /\ \A p \in Procs : \A i \in DOMAIN got[p] : got[p][i].cmd \in mine[p]
    /\ \A p \in Procs :
         (Returns(p) /\ Method(op[p]).pre = Nil /\ ret[p].err # TransportError)
         => \A c \in mine[p] : \E i \in DOMAIN got[p] : got[p][i].cmd = c /\ got[p][i].term

C19_Witness ==
    \E p, q \in Procs :
        /\ pc[p] = "read" /\ got[p] # << >> /\ Last(got[p]).cmd \in mine[p]
        /\ pc[q] = "start" /\ mine[q] # {} /\ id[p] < id[q]

====
